---- MODULE Spec2Model ----
(***************************************************************************)
(* CounterApp: the registry (Eureka) lifecycle client, the plaintext       *)
(* listener supervisor and the coordinated shutdown of app.py.             *)
(*                                                                         *)
(* Two specifications share the state:                                     *)
(*   Spec        the process of app.py: startup (__main__), the heartbeat  *)
(*               and listener threads, and cleanup_resources on shutdown;  *)
(*   ClientSpec  an EurekaConfig object driven by an arbitrary sequence of *)
(*               start_heartbeat / stop_heartbeat calls of one caller,     *)
(*               with the heartbeat worker threads running beside it.      *)
(***************************************************************************)
EXTENDS Integers, Sequences, FiniteSets, TLC

\* Bounds of the model.
MaxThreads == 2     \* heartbeat worker threads ever created
MaxCount == 2       \* history counters saturate here
MaxRequests == 3     \* GET /increment requests handled at the same time
MaxValue == 4       \* the counter is not incremented beyond this

VARIABLES
    env,                 \* the environment / app.config read at startup
    pc,                  \* position of the main thread (or of the API caller)
    trigger,             \* what started the shutdown
    run,                 \* number of the cleanup_resources execution (0: none yet)
    eureka_config,       \* the module singleton _eureka_config: "None" or "obj"
    heartbeat_thread,    \* EurekaConfig.heartbeat_thread: 0 is None, else a thread id
    heartbeat_running,   \* EurekaConfig.heartbeat_running
    hbPc,                \* position of each heartbeat worker thread
    ssl_context,         \* "unset" before create_ssl_context, then "None" or "ctx"
    http_server_thread,  \* the module global _http_server_thread: "None" or "thread"
    httpPc,              \* the listener thread: "unborn", "running" or "dead"
    shutdown_event,      \* the module global _shutdown_event
    posts, puts, deletes,\* requests sent to the registry (saturating counts)
    regResp,             \* the registry's answer to the last POST
    regResult,           \* what the registration attempt gave: none/true/false/raised
    ctorRaised,          \* EurekaConfig.__init__ raised ValueError at least once
    lastBeat,            \* return value of the last send_heartbeat: none/ok/failed
    prevBeat,            \* return value of the send_heartbeat before it
    beatParity,          \* flips at every heartbeat PUT
    events,              \* shutdown steps of the current cleanup_resources run
    fullAtCleanup,       \* the instance was fully running when the run began
    lastCall, prevCall,  \* the last two heartbeat API calls that returned
    startCalls, stopCalls,
    deregResp,           \* the registry's answer to the last DELETE
    deregResult,         \* return value of the last deregister_from_eureka: none/true/false
    tlsIn,               \* what create_ssl_context reads: app.config and the files
    tlsOut,              \* what create_ssl_context gave
    httpStartCalled,     \* start_http_server_if_enabled has been called
    httpPort,            \* port of the plaintext listener (0: none)
    reqHeader,           \* the Authorization header of the request at hand
    extractOut,          \* what extract_token_from_header gave for it
    validateOut,         \* what validate_jwt_roles gave for its token: none/true/false/raised
    protectedStatus,     \* HTTP status of GET /api/v1/count/protected (0: not called)
    decoratedStatus,     \* HTTP status of a handler under require_keycloak_roles (0: not called)
    strictIn,            \* what validate_jwt_token is given: the token and the key set
    strictOut,           \* what validate_jwt_token gave: none/true/false/raised
    healthIn,            \* what psutil reads for the health check
    isHealthyOut,        \* what is_healthy gave: none/true/false
    healthStatus,        \* "status" of the health record: none/UP/DOWN
    healthCode,          \* HTTP status of GET /health (0: not called)
    instance_id,         \* EurekaConfig.instance_id: 0 without an object, else the n-th UUID
    uuids,               \* number of uuid4() calls so far (saturating)
    idsSent,             \* the instance ids that went out in a POST body, PUT or DELETE URL
    orphans,             \* live listener threads whose reference was overwritten (saturating)
    lastHttpCall,        \* the last listener API call that returned: none/start/stop
    stPc,                \* position of a thread inside get_http_server_status
    stOut,               \* what get_http_server_status gave last
    value,               \* CounterService._counter.value
    incs,                \* increment_count calls while the service saw nothing but increment and get
    onlyIncs,            \* nothing but increment and get was called so far
    lastOp,              \* the last counter operation: none/increment/get/reset/set
    lastRet,             \* what it returned
    prevValue,           \* the counter's value before it
    prevOp,              \* the counter operation before the last one
    lastArg,             \* the argument of the last set_count (0: none yet)
    ipIn,                \* what the sockets answer inside _get_network_ip
    ipOut,               \* what _get_network_ip gave and which sources it asked
    callerPc,            \* position of each thread inside start_heartbeat
    rqPc,                \* position of each request thread inside GET /increment
    rqTmp,               \* the value a request thread loaded for value += 1
    rqRet                \* what increment_count returned to each request thread (-1: nothing yet)

envVars == <<env>>
mainVars == <<pc, trigger, run>>
clientVars == <<eureka_config, heartbeat_thread, heartbeat_running, hbPc>>
httpVars == <<ssl_context, http_server_thread, httpPc, shutdown_event>>
netVars == <<posts, puts, deletes, regResp, regResult, ctorRaised, lastBeat, prevBeat, beatParity>>
shutVars == <<events, fullAtCleanup>>
apiVars == <<lastCall, prevCall, startCalls, stopCalls>>
deregVars == <<deregResp, deregResult>>
tlsVars == <<tlsIn, tlsOut>>
listenVars == <<httpStartCalled, httpPort>>
authVars == <<reqHeader, extractOut, validateOut, protectedStatus, decoratedStatus>>
strictVars == <<strictIn, strictOut>>
healthVars == <<healthIn, isHealthyOut, healthStatus, healthCode>>
lifeVars == <<orphans, lastHttpCall>>
probeVars == <<stPc, stOut>>
\* State that only the module-level specifications change.
counterVars == <<value, incs, onlyIncs, lastOp, lastRet, prevValue, prevOp, lastArg>>
ipVars == <<ipIn, ipOut>>
raceVars == <<callerPc>>
incVars == <<rqPc, rqTmp, rqRet>>
extraVars == <<ipVars, raceVars, incVars>>
restVars == <<strictVars, healthVars, counterVars, lifeVars, probeVars, extraVars>>
reqVars == <<authVars, restVars>>
\* State of the process outside the main thread's position.
idVars == <<instance_id, uuids, idsSent>>
procVars == <<envVars, clientVars, httpVars, netVars, shutVars, apiVars,
              deregVars, tlsVars, listenVars, idVars>>
vars == <<envVars, mainVars, clientVars, httpVars, netVars, shutVars, apiVars,
          deregVars, tlsVars, listenVars, idVars, reqVars>>

Threads == 1..MaxThreads
\* Threads that call start_heartbeat: each of them creates at most one worker.
Callers == 1..MaxThreads
\* Request threads of the threaded server inside GET /increment.
Requests == 1..MaxRequests
\* Before _get_network_ip is called.
NoIpInput == [probe |-> "none", probeAddr |-> "none", host |-> "none", hostAddr |-> "none"]
NoIp == [ip |-> "none", tried |-> <<>>]

Add(n, k) == IF n + k < MaxCount THEN n + k ELSE MaxCount
Inc(n) == Add(n, 1)

(***************************************************************************)
(* The registry's answers as urllib sees them: a response object with a    *)
(* 2xx status, an HTTPError (status >= 400), or any other exception        *)
(* (connection refused, timeout, TLS failure).                             *)
(***************************************************************************)
NoResponse == [kind |-> "none", code |-> 0]
Responses ==
    {[kind |-> "status", code |-> c] : c \in {200, 204}}
    \cup {[kind |-> "httperror", code |-> c] : c \in {404, 500}}
    \cup {[kind |-> "neterror", code |-> 0]}

\* EurekaConfig.register_with_eureka: True only on a response with status 204.
RegisterAcceptsAny2xx(resp) == resp.kind = "status"
RegisterReturns(resp) == resp.kind = "status" /\ resp.code = 204

\* EurekaConfig.deregister_from_eureka: True only on a response with status 200.
DeregisterAcceptsAny2xx(resp) == resp.kind = "status"
DeregisterReturns(resp) == resp.kind = "status" /\ resp.code = 200

\* EurekaConfig.send_heartbeat: True only on a response with status 200.
HeartbeatReturns(resp) == resp.kind = "status" /\ resp.code = 200

\* EurekaConfig.register_with_eureka as a function of the object's app_name
\* and of the registry's answer: the number of requests sent, and the return
\* value.
\* A variant that repeats the POST once after a failure.
RegisterRetries(appNameSet, resp) ==
    IF ~appNameSet
    THEN [requests |-> 0, result |-> FALSE]
    ELSE [requests |-> IF RegisterReturns(resp) THEN 1 ELSE 2,
          result |-> RegisterReturns(resp)]
RegisterMethod(appNameSet, resp) ==
    IF ~appNameSet
    THEN [requests |-> 0, result |-> FALSE]
    ELSE [requests |-> 1, result |-> RegisterReturns(resp)]

(***************************************************************************)
(* get_eureka_config(): builds the singleton on first use.  The            *)
(* constructor raises ValueError when APP_NAME is unset or empty, and      *)
(* then the singleton stays None, so every later use raises again.         *)
(***************************************************************************)
GetRaises == eureka_config = "None" /\ ~env.appName
ConfigAfterGet == IF eureka_config = "obj" \/ env.appName THEN "obj" ELSE "None"

\* `if _eureka_config is None`: the constructor runs, and with it uuid4().
NewConfigAlways == TRUE
NewConfig == eureka_config = "None"
\* The instance id of the object get_eureka_config() returns, and the number
\* of UUIDs drawn up to then; the n-th uuid4() call gives the value n.
UuidsAfterGet == IF NewConfig THEN Inc(uuids) ELSE uuids
IdAfterGet == IF NewConfig THEN UuidsAfterGet ELSE instance_id

\* is_alive() is False before the thread is started ("created") and after its
\* target returned ("dead").
Alive(t) == hbPc[t] \notin {"unborn", "created", "dead"}
AliveLoops == {t \in Threads : Alive(t)}
Unborn == {t \in Threads : hbPc[t] = "unborn"}
FreshThread == IF Unborn = {} THEN 0 ELSE CHOOSE t \in Unborn : \A u \in Unborn : t <= u

\* start_heartbeat's condition: no thread yet, or the thread is not alive.
StartAlwaysCreates == TRUE
HeartbeatThreadDead == heartbeat_thread = 0 \/ ~Alive(heartbeat_thread)

\* start_heartbeat: the whole method.
StartHeartbeatEffect ==
    IF HeartbeatThreadDead
    THEN /\ FreshThread # 0
         /\ heartbeat_running' = TRUE
         /\ heartbeat_thread' = FreshThread
         /\ hbPc' = [hbPc EXCEPT ![FreshThread] = "check"]
    ELSE UNCHANGED <<heartbeat_running, heartbeat_thread, hbPc>>

\* stop_heartbeat joins only when there is a thread and it is alive.
StopHeartbeatJoins == heartbeat_thread # 0 /\ Alive(heartbeat_thread)

\* register_with_eureka (module level) starts the heartbeat only on success.
StartsHeartbeatAlways(success) == TRUE
StartsHeartbeatAfter(success) == success

(***************************************************************************)
(* The heartbeat worker thread: while heartbeat_running: send_heartbeat,   *)
(* sleep(30); an exception is printed and followed by the same sleep.      *)
(***************************************************************************)
LoopIgnoresFlag == TRUE
LoopContinues == heartbeat_running

WorkerStopsOnFailure(ok) == IF ok THEN "sleep" ELSE "dead"
WorkerAfterSend(ok) == "sleep"

ProcessAlive == pc # "exited"

HbCheck(t) ==
    /\ ProcessAlive
    /\ hbPc[t] = "check"
    /\ hbPc' = [hbPc EXCEPT ![t] = IF LoopContinues THEN "send" ELSE "dead"]
    /\ UNCHANGED <<envVars, mainVars, eureka_config, heartbeat_thread, heartbeat_running,
                   httpVars, netVars, shutVars, apiVars>>
    /\ UNCHANGED <<deregVars, tlsVars, listenVars>>
    /\ UNCHANGED reqVars
    /\ UNCHANGED idVars

HbSend(t) ==
    /\ ProcessAlive
    /\ hbPc[t] = "send"
    /\ \E resp \in Responses :
         /\ puts' = Inc(puts)
         /\ idsSent' = idsSent \cup {instance_id}
         /\ beatParity' = 1 - beatParity
         /\ lastBeat' = IF HeartbeatReturns(resp) THEN "ok" ELSE "failed"
         /\ prevBeat' = lastBeat
         /\ hbPc' = [hbPc EXCEPT ![t] = WorkerAfterSend(HeartbeatReturns(resp))]
    /\ UNCHANGED <<envVars, mainVars, eureka_config, heartbeat_thread, heartbeat_running,
                   httpVars, posts, deletes, regResp, regResult, ctorRaised,
                   shutVars, apiVars>>
    /\ UNCHANGED <<deregVars, tlsVars, listenVars>>
    /\ UNCHANGED reqVars
    /\ UNCHANGED <<instance_id, uuids>>

HbWake(t) ==
    /\ ProcessAlive
    /\ hbPc[t] = "sleep"
    /\ hbPc' = [hbPc EXCEPT ![t] = "check"]
    /\ UNCHANGED <<envVars, mainVars, eureka_config, heartbeat_thread, heartbeat_running,
                   httpVars, netVars, shutVars, apiVars>>
    /\ UNCHANGED <<deregVars, tlsVars, listenVars>>
    /\ UNCHANGED reqVars
    /\ UNCHANGED idVars

Worker == \E t \in Threads : HbCheck(t) \/ HbSend(t) \/ HbWake(t)

(***************************************************************************)
(* The plaintext listener thread (run_http_server).  It blocks in          *)
(* http_app.run and never reads the shutdown event; it ends only when      *)
(* http_app.run raises (the exception is printed and the thread returns).  *)
(***************************************************************************)
HttpCrash ==
    /\ ProcessAlive
    /\ httpPc = "running"
    /\ httpPc' = "dead"
    /\ UNCHANGED <<envVars, mainVars, clientVars, ssl_context, http_server_thread,
                   shutdown_event, netVars, shutVars, apiVars>>
    /\ UNCHANGED <<deregVars, tlsVars, listenVars>>
    /\ UNCHANGED reqVars
    /\ UNCHANGED idVars

(***************************************************************************)
(* Startup, app.py __main__: register_with_eureka(), create_ssl_context,   *)
(* start_http_server_if_enabled, app.run.                                  *)
(***************************************************************************)
\* register_with_eureka (module level): get the singleton, call its
\* register_with_eureka once, start the heartbeat on success; any exception
\* (the constructor's ValueError) is caught and printed.
RegisterWithEureka ==
    /\ pc = "start"
    /\ pc' = "ssl"
    /\ IF GetRaises
       THEN /\ regResult' = "raised"
            /\ ctorRaised' = TRUE
            /\ UNCHANGED <<clientVars, posts, regResp, idVars>>
       ELSE \E resp \in Responses :
              LET r == RegisterMethod(TRUE, resp) IN
              /\ eureka_config' = ConfigAfterGet
              /\ instance_id' = IdAfterGet
              /\ uuids' = UuidsAfterGet
              /\ idsSent' = IF r.requests > 0 THEN idsSent \cup {IdAfterGet} ELSE idsSent
              /\ posts' = Add(posts, r.requests)
              /\ regResp' = IF r.requests > 0 THEN resp ELSE regResp
              /\ regResult' = IF r.result THEN "true" ELSE "false"
              /\ IF StartsHeartbeatAfter(r.result)
                 THEN StartHeartbeatEffect
                 ELSE UNCHANGED <<heartbeat_running, heartbeat_thread, hbPc>>
              /\ UNCHANGED ctorRaised
    /\ UNCHANGED <<envVars, trigger, run, httpVars, puts, deletes, lastBeat, prevBeat, beatParity,
                   shutVars, apiVars>>
    /\ UNCHANGED <<deregVars, tlsVars, listenVars>>
    /\ UNCHANGED reqVars

(***************************************************************************)
(* SecurityConfig.create_ssl_context.  It reads SSL_ENABLED and            *)
(* MUTUAL_TLS_ENABLED from app.config and three files.  A file is absent,  *)
(* valid, or invalid: there (os.path.exists is true) but not loadable      *)
(* (unreadable, or not the PEM material the ssl module accepts), in which  *)
(* case load_cert_chain / load_verify_locations raise.                     *)
(***************************************************************************)
FileStates == {"absent", "valid", "invalid"}
TlsInputs ==
    [sslEnabled : BOOLEAN, cert : FileStates, key : FileStates,
     mutualTls : BOOLEAN, ca : FileStates]

NoTls == [outcome |-> "none", verify_mode |-> "unset", check_hostname |-> FALSE]
TlsRaised == [outcome |-> "raised", verify_mode |-> "unset", check_hostname |-> FALSE]
TlsContext(mode) == [outcome |-> "ctx", verify_mode |-> mode, check_hostname |-> FALSE]

\* The files exist: `cert_path and key_path and exists(cert) and exists(key)`.
SslFilesExist(t) == t.cert # "absent" /\ t.key # "absent"

\* `mutual_tls_enabled and ca_bundle_path and os.path.exists(ca_bundle_path)`.
WantsClientCertsAlways(t) == t.mutualTls
WantsClientCerts(t) == t.mutualTls /\ t.ca # "absent"

BuildTls(t) ==
    IF ~t.sslEnabled THEN NoTls
    ELSE IF ~SslFilesExist(t) THEN NoTls
    ELSE IF t.cert = "invalid" \/ t.key = "invalid" THEN TlsRaised
    ELSE IF WantsClientCerts(t)
         THEN IF t.ca = "invalid" THEN TlsRaised ELSE TlsContext("CERT_REQUIRED")
         ELSE TlsContext("CERT_NONE")

\* start_http_server_if_enabled: a listener thread only when HTTP_ENABLED
\* and there is no SSL context.
StartsHttpServerIgnoringTls == env.httpEnabled
StartsHttpServer == env.httpEnabled /\ ssl_context = "None"

\* PORT's default in __main__, and the listener's port derived from it.
Port == 5001
HttpPortOf(port) == port + 1000

StartHttpServerIfEnabled ==
    /\ pc = "http"
    /\ pc' = "serve"
    /\ IF StartsHttpServer
       THEN /\ http_server_thread' = "thread"
            /\ httpPc' = "running"
            /\ httpPort' = HttpPortOf(Port)
       ELSE UNCHANGED <<http_server_thread, httpPc, httpPort>>
    /\ httpStartCalled' = TRUE
    /\ UNCHANGED <<envVars, trigger, run, clientVars, ssl_context, shutdown_event,
                   netVars, shutVars, apiVars>>
    /\ UNCHANGED <<deregVars, tlsVars>>
    /\ UNCHANGED reqVars
    /\ UNCHANGED idVars

(***************************************************************************)
(* Shutdown.  cleanup_resources runs its three steps in program order.     *)
(* It is entered from signal_handler (then sys.exit(0)), from the atexit   *)
(* hook shutdown_handler, and from the two except clauses of __main__.     *)
(* After every entry but the atexit hook itself, the interpreter's exit    *)
(* runs the atexit hook, and with it cleanup_resources a second time.      *)
(***************************************************************************)
ShutdownKinds == {"signal", "atexit", "keyboard", "error"}

DeregisterFirst == <<"dereg", "stop_http", "stop_hb">>
CleanupOrder == <<"stop_http", "stop_hb", "dereg">>

AfterCleanupStep(s) ==
    LET i == CHOOSE k \in 1..3 : CleanupOrder[k] = s
    IN IF i < 3 THEN CleanupOrder[i + 1] ELSE "cleaned"

FullyRunning ==
    /\ http_server_thread = "thread" /\ httpPc = "running"
    /\ heartbeat_running /\ heartbeat_thread # 0 /\ Alive(heartbeat_thread)
    /\ regResult = "true"

\* The signal handlers are installed at import, so a signal can arrive at any
\* point of the startup; the other entries follow app.run.
BeginShutdown ==
    /\ \E kind \in ShutdownKinds :
         /\ \/ kind = "signal" /\ pc \in {"start", "ssl", "http", "serve"}
            \/ kind # "signal" /\ pc = "serve"
         /\ trigger' = kind
    /\ pc' = CleanupOrder[1]
    /\ run' = 1
    /\ events' = <<>>
    /\ fullAtCleanup' = FullyRunning
    /\ UNCHANGED <<envVars, clientVars, httpVars, netVars, apiVars>>
    /\ UNCHANGED <<deregVars, tlsVars, listenVars>>
    /\ UNCHANGED reqVars
    /\ UNCHANGED idVars

\* __main__: the context is built after the registration; an exception of
\* create_ssl_context reaches `except Exception`, which runs
\* cleanup_resources and sys.exit(1).
CreateSslContext ==
    /\ pc = "ssl"
    /\ tlsOut' = BuildTls(tlsIn)
    /\ IF BuildTls(tlsIn).outcome = "raised"
       THEN /\ pc' = CleanupOrder[1]
            /\ trigger' = "error"
            /\ run' = 1
            /\ events' = <<>>
            /\ fullAtCleanup' = FullyRunning
            /\ UNCHANGED ssl_context
       ELSE /\ pc' = "http"
            /\ ssl_context' = IF BuildTls(tlsIn).outcome = "ctx" THEN "ctx" ELSE "None"
            /\ UNCHANGED <<trigger, run, events, fullAtCleanup>>
    /\ UNCHANGED <<envVars, clientVars, http_server_thread, httpPc,
                   shutdown_event, netVars, apiVars, deregVars, tlsIn, listenVars>>
    /\ UNCHANGED reqVars
    /\ UNCHANGED idVars

\* stop_http_server up to the join.
StopHttpServer ==
    /\ pc = "stop_http"
    /\ IF http_server_thread = "thread" /\ httpPc = "running"
       THEN /\ shutdown_event' = TRUE
            /\ pc' = "http_join"
            /\ UNCHANGED events
       ELSE /\ pc' = AfterCleanupStep("stop_http")
            /\ events' = Append(events, "listener_stopped")
            /\ UNCHANGED shutdown_event
    /\ UNCHANGED <<envVars, trigger, run, clientVars, ssl_context, http_server_thread,
                   httpPc, netVars, fullAtCleanup, apiVars>>
    /\ UNCHANGED <<deregVars, tlsVars, listenVars>>
    /\ UNCHANGED reqVars
    /\ UNCHANGED idVars

\* _http_server_thread.join(timeout=5) returns when the thread has ended or
\* the five seconds are over, whichever is first: it can always return.
HttpJoinUnbounded == httpPc = "dead"
HttpJoinCanReturn == TRUE
\* `_http_server_thread = None` after the join, inside the if branch only.
ThreadKeptAfterStop == http_server_thread
ThreadAfterStop == "None"

\* join(timeout=5) returns, the thread dead or not; the reference is dropped.
HttpJoinReturn ==
    /\ pc = "http_join"
    /\ HttpJoinCanReturn
    /\ pc' = AfterCleanupStep("stop_http")
    /\ http_server_thread' = ThreadAfterStop
    /\ events' = Append(events, "listener_stopped")
    /\ UNCHANGED <<envVars, trigger, run, clientVars, ssl_context, httpPc, shutdown_event,
                   netVars, fullAtCleanup, apiVars>>
    /\ UNCHANGED <<deregVars, tlsVars, listenVars>>
    /\ UNCHANGED reqVars
    /\ UNCHANGED idVars

\* stop_heartbeat (module level, then the method) up to the join.
StopHeartbeat ==
    /\ pc = "stop_hb"
    /\ IF GetRaises
       THEN /\ ctorRaised' = TRUE
            /\ pc' = AfterCleanupStep("stop_hb")
            /\ events' = events \o <<"hb_stop_begun", "hb_stopped">>
            /\ UNCHANGED <<eureka_config, heartbeat_running, instance_id, uuids>>
       ELSE /\ eureka_config' = ConfigAfterGet
            /\ instance_id' = IdAfterGet
            /\ uuids' = UuidsAfterGet
            /\ heartbeat_running' = FALSE
            /\ UNCHANGED ctorRaised
            /\ IF StopHeartbeatJoins
               THEN /\ pc' = "hb_join"
                    /\ events' = Append(events, "hb_stop_begun")
               ELSE /\ pc' = AfterCleanupStep("stop_hb")
                    /\ events' = events \o <<"hb_stop_begun", "hb_stopped">>
    /\ UNCHANGED <<envVars, trigger, run, heartbeat_thread, hbPc, httpVars,
                   posts, puts, deletes, regResp, regResult, lastBeat, prevBeat, beatParity,
                   fullAtCleanup, apiVars>>
    /\ UNCHANGED <<deregVars, tlsVars, listenVars>>
    /\ UNCHANGED reqVars
    /\ UNCHANGED idsSent

\* join(timeout=5) on the heartbeat thread returns, the thread dead or not.
HbJoinReturn ==
    /\ pc = "hb_join"
    /\ pc' = AfterCleanupStep("stop_hb")
    /\ events' = Append(events, "hb_stopped")
    /\ UNCHANGED <<envVars, trigger, run, clientVars, httpVars, netVars,
                   fullAtCleanup, apiVars>>
    /\ UNCHANGED <<deregVars, tlsVars, listenVars>>
    /\ UNCHANGED reqVars
    /\ UNCHANGED idVars

\* deregister_from_eureka (module level, then the method): one DELETE.
DeregisterFromEureka ==
    /\ pc = "dereg"
    /\ pc' = AfterCleanupStep("dereg")
    /\ IF GetRaises
       THEN /\ ctorRaised' = TRUE
            /\ UNCHANGED <<eureka_config, deletes, events, deregVars, idVars>>
       ELSE \E resp \in Responses :
            /\ eureka_config' = ConfigAfterGet
            /\ instance_id' = IdAfterGet
            /\ uuids' = UuidsAfterGet
            /\ idsSent' = idsSent \cup {IdAfterGet}
            /\ deletes' = Inc(deletes)
            /\ events' = Append(events, "dereg_issued")
            /\ deregResp' = resp
            /\ deregResult' = IF DeregisterReturns(resp) THEN "true" ELSE "false"
            /\ UNCHANGED ctorRaised
    /\ UNCHANGED <<envVars, trigger, run, heartbeat_thread, heartbeat_running, hbPc,
                   httpVars, posts, puts, regResp, regResult, lastBeat, prevBeat, beatParity,
                   fullAtCleanup, apiVars>>
    /\ UNCHANGED <<tlsVars, listenVars>>
    /\ UNCHANGED reqVars

\* cleanup_resources returned: the process exits, through the atexit hook
\* when this run was not the hook's own.
FinishCleanup ==
    /\ pc = "cleaned"
    /\ IF trigger = "atexit" \/ run = 2
       THEN /\ pc' = "exited"
            /\ UNCHANGED <<run, events, fullAtCleanup>>
       ELSE /\ pc' = CleanupOrder[1]
            /\ run' = 2
            /\ events' = <<>>
            /\ fullAtCleanup' = FullyRunning
    /\ UNCHANGED <<envVars, trigger, clientVars, httpVars, netVars, apiVars>>
    /\ UNCHANGED <<deregVars, tlsVars, listenVars>>
    /\ UNCHANGED reqVars
    /\ UNCHANGED idVars

(***************************************************************************)
(* Authorization (keycloak_config.py, security_config.py, the protected    *)
(* endpoint of counter_controller.py).                                     *)
(*                                                                         *)
(* A token is a JWT with claims, a string jwt.decode rejects, or no text   *)
(* at all.  The claims are given by the shape of realm_access and of       *)
(* resource_access, down to the value of "roles":                          *)
(*   has     an array that holds the required role                         *)
(*   lacks   an array that does not hold it                                *)
(*   substr  a string that has the role's name inside it                   *)
(*   null    a value `in` cannot search (None, a number): TypeError        *)
(***************************************************************************)
RolesValues == {"has", "lacks", "substr", "null"}
\* realm_access: key absent, not an object, an object without "roles", or
\* an object with "roles".
RealmShapes == {"absent", "nondict", "noroles"} \cup RolesValues
\* resource_access: key absent, not an object, an object without the client
\* id; the client's entry: not an object, without "roles", or with "roles".
ClientShapes == {"absent", "nondict", "noclient", "entry_nondict", "noroles"} \cup RolesValues

\* The third segment of a JWT: a signature made with the realm's key, one
\* made with some other key, or none at all (alg "none").
Sigs == {"realm_key", "other_key", "unsigned"}

Jwts == [kind : {"jwt"}, realm : RealmShapes, client : ClientShapes, sig : Sigs]
GarbageToken == [kind |-> "garbage", realm |-> "absent", client |-> "absent", sig |-> "unsigned"]
EmptyToken == [kind |-> "none", realm |-> "absent", client |-> "absent", sig |-> "unsigned"]
Tokens == Jwts \cup {GarbageToken}

(***************************************************************************)
(* An Authorization header: absent, or the characters `chars` followed by  *)
(* the text of `tok`.  A token's text never begins like the prefix goes    *)
(* on (a JWT begins "eyJ"), so whether the header starts with "Bearer "    *)
(* is decided by `chars`.                                                  *)
(***************************************************************************)
BearerPrefix == <<"B", "e", "a", "r", "e", "r", " ">>
LowerPrefix == <<"b", "e", "a", "r", "e", "r", " ">>
BearerNoSpace == <<"B", "e", "a", "r", "e", "r">>
BasicPrefix == <<"B", "a", "s", "i", "c", " ">>

NoHeader == [present |-> FALSE, chars |-> <<>>, tok |-> EmptyToken]
Headers ==
    {NoHeader}
    \cup {[present |-> TRUE, chars |-> c, tok |-> EmptyToken] :
             c \in {<<>>, BearerNoSpace, BearerPrefix, BearerPrefix \o <<" ">>}}
    \cup {[present |-> TRUE, chars |-> c, tok |-> t] :
             c \in {<<>>, BearerPrefix, LowerPrefix, BearerNoSpace, BasicPrefix},
             t \in Tokens}

\* str.startswith
StartsWith(h, p) == Len(h) >= Len(p) /\ SubSeq(h, 1, Len(p)) = p

\* extract_token_from_header (and the same test in _has_jwt_token):
\* `auth_header and auth_header.startswith('Bearer ')`, then auth_header[7:].
NoToken == [some |-> FALSE, chars |-> <<>>, tok |-> EmptyToken]
ExtractTokenLoosePrefix(h) ==
    IF h.present /\ StartsWith(h.chars, BearerNoSpace)
    THEN [some |-> TRUE, chars |-> SubSeq(h.chars, 7 + 1, Len(h.chars)), tok |-> h.tok]
    ELSE NoToken
ExtractToken(h) ==
    IF h.present /\ (h.chars # <<>> \/ h.tok.kind # "none") /\ StartsWith(h.chars, BearerPrefix)
    THEN [some |-> TRUE, chars |-> SubSeq(h.chars, 7 + 1, Len(h.chars)), tok |-> h.tok]
    ELSE NoToken

\* The extracted string is empty (falsy in `if not token`).
EmptyText(x) == x.chars = <<>> /\ x.tok.kind = "none"

\* jwt.decode(token, options={"verify_signature": False}): the claims, or an
\* exception for anything that is not a JWT.  The signature segment is not
\* looked at.
DecodesVerified(x) == x.chars = <<>> /\ x.tok.kind = "jwt" /\ x.tok.sig = "realm_key"
Decodes(x) == x.chars = <<>> /\ x.tok.kind = "jwt"

\* `required_role in roles`: "true", "false" or "raise".
InRoles(v) ==
    CASE v = "has" -> "true"
      [] v = "substr" -> "true"
      [] v = "lacks" -> "false"
      [] OTHER -> "raise"

\* _check_realm_roles before its except clause.
CheckRealmRolesRaw(t) ==
    CASE t.realm = "absent" -> "false"
      [] t.realm = "nondict" -> "raise"
      [] t.realm = "noroles" -> "false"
      [] OTHER -> InRoles(t.realm)
\* _check_realm_roles: an exception is logged and gives False.
CheckRealmRoles(t) == CheckRealmRolesRaw(t) = "true"

\* _check_client_roles before its except clause.
CheckClientRolesRaw(t) ==
    CASE t.client = "absent" -> "false"
      [] t.client = "nondict" -> "raise"
      [] t.client = "noclient" -> "false"
      [] t.client = "entry_nondict" -> "raise"
      [] t.client = "noroles" -> "false"
      [] OTHER -> InRoles(t.client)
\* _check_client_roles: an exception is logged and gives False.
CheckClientRoles(t) == CheckClientRolesRaw(t) = "true"

\* validate_jwt_roles before its except clause: "true", "false" or "raise".
ValidateJwtRolesRaw(x) ==
    IF ~Decodes(x) THEN "raise"
    ELSE IF CheckRealmRoles(x.tok) /\ CheckClientRoles(x.tok) THEN "true" ELSE "false"

\* validate_jwt_roles: any exception is logged and gives False.
ValidateWithoutExcept(x) ==
    IF ValidateJwtRolesRaw(x) = "raise" THEN "raised" ELSE ValidateJwtRolesRaw(x)
ValidateJwtRoles(x) ==
    IF ValidateJwtRolesRaw(x) = "raise" THEN "false" ELSE ValidateJwtRolesRaw(x)

\* SecurityConfig._has_jwt_token
HasJwtToken(h) ==
    IF ExtractToken(h).some THEN ValidateJwtRoles(ExtractToken(h)) = "true" ELSE FALSE

\* ProtectedResource.get: api.abort(401) unless _has_jwt_token(), else the
\* handler's body (200).
ProtectedGetStatus(h) == IF HasJwtToken(h) THEN 200 ELSE 401

\* require_keycloak_roles: 401 without a token, 403 without the roles, else
\* the wrapped handler (200).
DecoratedStatus(h) ==
    IF ~ExtractToken(h).some \/ EmptyText(ExtractToken(h)) THEN 401
    ELSE IF ValidateJwtRoles(ExtractToken(h)) # "true" THEN 403
    ELSE 200

(***************************************************************************)
(* The strict validator, SecurityConfig.validate_jwt_token.  Its input is  *)
(* the token and what the key-set endpoint answers:                        *)
(*   hdr      get_unverified_header: raises, gives no (or an empty) kid,   *)
(*            or gives a kid                                               *)
(*   jwks     the key set has a key with that kid, has none, or the fetch  *)
(*            fails (timeout, HTTP error, not JSON)                        *)
(*   keyLoads jwt.decode takes the JWK entry it is handed as a key; the    *)
(*            entry is passed as the dict from the key set and no library  *)
(*            version is pinned, so both outcomes are kept                 *)
(*   sig      as for the role check; "realm_key" is the key of that kid    *)
(*   expired  the exp claim is in the past                                 *)
(*   iss      the issuer is on allowed_issuers, is another one, or absent  *)
(*   scope    the scope claim: has 'counter-app.read' as one of its        *)
(*            space-delimited entries, has it only inside a longer entry   *)
(*            ('counter-app.readwrite'), has other entries, is absent, or  *)
(*            is null                                                      *)
(***************************************************************************)
StrictHeaders == {"undecodable", "nokid", "kid"}
KeySets == {"has_kid", "lacks_kid", "fetch_fails"}
Issuers == {"allowed", "other", "absent"}
Scopes == {"entry", "substr", "other", "absent", "null"}
StrictInputs ==
    [hdr : StrictHeaders, jwks : KeySets, keyLoads : BOOLEAN, sig : Sigs,
     expired : BOOLEAN, iss : Issuers, scope : Scopes]
NoStrictInput ==
    [hdr |-> "undecodable", jwks |-> "fetch_fails", keyLoads |-> FALSE, sig |-> "unsigned",
     expired |-> FALSE, iss |-> "absent", scope |-> "absent"]

\* jwt.decode(token, key, algorithms=['RS256'], options=...) gives the claims:
\* the key is taken, the signature is RS256 by that key, exp is not passed.
StrictDecodes(i) == i.keyLoads /\ i.sig = "realm_key" /\ ~i.expired

\* `issuer not in self.allowed_issuers`
IssuerAllowed(i) == i.iss = "allowed"

\* `'counter-app.read' not in scope` on decoded.get('scope', ''): "true",
\* "false" or "raise".
ScopeTest(i) ==
    CASE i.scope = "entry" -> "true"
      [] i.scope = "substr" -> "true"
      [] i.scope = "other" -> "false"
      [] i.scope = "absent" -> "false"
      [] OTHER -> "raise"

\* validate_jwt_token before its except clause.
ValidateJwtTokenRaw(i) ==
    IF i.hdr = "undecodable" THEN "raise"
    ELSE IF i.hdr = "nokid" THEN "false"
    ELSE IF i.jwks = "fetch_fails" THEN "raise"
    ELSE IF i.jwks = "lacks_kid" THEN "false"
    ELSE IF ~StrictDecodes(i) THEN "raise"
    ELSE IF ~IssuerAllowed(i) THEN "false"
    ELSE ScopeTest(i)

\* validate_jwt_token: any exception is logged and gives False.
ValidateJwtToken(i) ==
    IF ValidateJwtTokenRaw(i) = "raise" THEN "false" ELSE ValidateJwtTokenRaw(i)

(***************************************************************************)
(* The health check (health_controller.py).  A reading is the process's    *)
(* memory share and the CPU load in percent, or psutil raising.            *)
(***************************************************************************)
MemoryReadings == {0, 1, 45, 89, 90, 91, 99, 100}
CpuReadings == {0, 50, 100}
HealthReadings == [mem : MemoryReadings, cpu : CpuReadings, psutilFails : BOOLEAN]
NoReading == [mem |-> 0, cpu |-> 0, psutilFails |-> FALSE]

memory_threshold == 90
cpu_threshold == 0

\* is_healthy: memory_percent < memory_threshold and cpu_percent >=
\* cpu_threshold; False when psutil raises.
MemoryHealthy(r) == r.mem < memory_threshold
IsHealthy(r) ==
    IF r.psutilFails THEN FALSE
    ELSE MemoryHealthy(r) /\ r.cpu >= cpu_threshold

\* get_health_status: "status" of the record it returns; its own psutil calls
\* raising give the DOWN record of the except clause.
HealthStatusOf(r) ==
    IF r.psutilFails THEN "DOWN"
    ELSE IF IsHealthy(r) THEN "UP" ELSE "DOWN"

\* HealthResource.get
HealthCodeOf(r) == IF HealthStatusOf(r) = "UP" THEN 200 ELSE 503

(***************************************************************************)
(* get_http_server_status.  The function reads the module global           *)
(* _http_server_thread four times (the None test, is_alive() for           *)
(* "status", .name, is_alive() for "is_alive") with no lock, so another    *)
(* thread can run between any two of the reads.                            *)
(***************************************************************************)
NoStatus == [outcome |-> "none", status |-> "none", is_alive |-> FALSE]
NotStarted == [outcome |-> "returned", status |-> "not_started", is_alive |-> FALSE]
StatusRaised == [outcome |-> "raised", status |-> "none", is_alive |-> FALSE]
\* Thread.is_alive() of the referenced thread.
IsAlive == httpPc = "running"

(***************************************************************************)
(* The counter (counter_service.py).  Python integers do not overflow; the *)
(* model stops incrementing at MaxValue.                                   *)
(***************************************************************************)
\* `self._counter.value += 1`
IncrementByTwo(v) == v + 2
Incremented(v) == v + 1
\* The arguments of set_count.
SetValues == -1..MaxValue
\* `self._counter.value = 0` in reset_count
ResetKeepsValue == value
ResetValue == 0
\* `self._counter.value = value` in set_count
SetOnlyRaises(v) == IF v > value THEN v ELSE value
ValueAfterSet(v) == v

Envs == [appName : BOOLEAN, httpEnabled : BOOLEAN]

\* The TLS inputs of the process: one for every path through
\* create_ssl_context (key and certificate in the same state; a CA bundle
\* only where mutual TLS asks for one).
StartupTls ==
    {t \in TlsInputs :
        /\ t.key = t.cert
        /\ t.sslEnabled \/ (t.cert = "valid" /\ ~t.mutualTls)
        /\ t.mutualTls => t.cert = "valid"
        /\ ~t.mutualTls => t.ca = "absent"}

InitCommon ==
    /\ trigger = "none"
    /\ run = 0
    /\ heartbeat_thread = 0
    /\ heartbeat_running = FALSE
    /\ hbPc = [t \in Threads |-> "unborn"]
    /\ ssl_context = "unset"
    /\ http_server_thread = "None"
    /\ httpPc = "unborn"
    /\ shutdown_event = FALSE
    /\ posts = 0 /\ puts = 0 /\ deletes = 0
    /\ regResp = NoResponse
    /\ regResult = "none"
    /\ ctorRaised = FALSE
    /\ lastBeat = "none" /\ prevBeat = "none"
    /\ beatParity = 0
    /\ events = <<>>
    /\ fullAtCleanup = FALSE
    /\ lastCall = "none" /\ prevCall = "none"
    /\ startCalls = 0 /\ stopCalls = 0
    /\ deregResp = NoResponse
    /\ deregResult = "none"
    /\ tlsOut = [outcome |-> "unset", verify_mode |-> "unset", check_hostname |-> FALSE]
    /\ httpStartCalled = FALSE
    /\ httpPort = 0
    /\ extractOut = NoToken
    /\ validateOut = "none"
    /\ protectedStatus = 0
    /\ decoratedStatus = 0
    /\ strictOut = "none"
    /\ idsSent = {}
    /\ orphans = 0
    /\ lastHttpCall = "none"
    /\ stPc = "idle"
    /\ stOut = NoStatus
    /\ value = 0
    /\ incs = 0
    /\ onlyIncs = TRUE
    /\ lastOp = "none"
    /\ lastRet = 0
    /\ prevValue = 0
    /\ prevOp = "none"
    /\ lastArg = 0
    /\ ipIn = NoIpInput
    /\ ipOut = NoIp
    /\ callerPc = [c \in Callers |-> "idle"]
    /\ rqPc = [r \in Requests |-> "idle"]
    /\ rqTmp = [r \in Requests |-> 0]
    /\ rqRet = [r \in Requests |-> -1]
    /\ isHealthyOut = "none"
    /\ healthStatus = "none"
    /\ healthCode = 0

Init ==
    /\ env \in Envs
    /\ tlsIn \in StartupTls
    /\ reqHeader = NoHeader
    /\ strictIn = NoStrictInput
    /\ healthIn = NoReading
    /\ pc = "start"
    /\ eureka_config = "None"
    /\ instance_id = 0
    /\ uuids = 0
    /\ InitCommon

Next ==
    \/ RegisterWithEureka
    \/ CreateSslContext
    \/ StartHttpServerIfEnabled
    \/ BeginShutdown
    \/ StopHttpServer
    \/ HttpJoinReturn
    \/ StopHeartbeat
    \/ HbJoinReturn
    \/ DeregisterFromEureka
    \/ FinishCleanup
    \/ HttpCrash
    \/ Worker

Spec == Init /\ [][Next]_vars

\* cleanup_resources runs on the main thread, which is scheduled; each of its
\* steps ends by itself (both joins and the DELETE carry a timeout), so the
\* main thread's next cleanup step is weakly fair.  Nothing is assumed of the
\* listener thread or of the heartbeat workers.
CleanupStep ==
    \/ StopHttpServer
    \/ HttpJoinReturn
    \/ StopHeartbeat
    \/ HbJoinReturn
    \/ DeregisterFromEureka
    \/ FinishCleanup

ShutdownSpec == Init /\ [][Next]_vars /\ WF_vars(CleanupStep)

(***************************************************************************)
(* ClientSpec: one caller holding a constructed EurekaConfig (APP_NAME is  *)
(* set) calls start_heartbeat and stop_heartbeat in any order, one call at *)
(* a time; stop_heartbeat blocks the caller in join(timeout=5).            *)
(***************************************************************************)
ApiStartHeartbeat ==
    /\ pc = "api"
    /\ StartHeartbeatEffect
    /\ startCalls' = Inc(startCalls)
    /\ lastCall' = "start"
    /\ prevCall' = lastCall
    /\ UNCHANGED <<envVars, mainVars, eureka_config, httpVars, netVars, shutVars, stopCalls>>
    /\ UNCHANGED <<deregVars, tlsVars, listenVars>>
    /\ UNCHANGED reqVars
    /\ UNCHANGED idVars

ApiStopHeartbeat ==
    /\ pc = "api"
    /\ heartbeat_running' = FALSE
    /\ stopCalls' = Inc(stopCalls)
    /\ IF StopHeartbeatJoins
       THEN /\ pc' = "api_join"
            /\ UNCHANGED <<lastCall, prevCall>>
       ELSE /\ pc' = "api"
            /\ lastCall' = "stop"
            /\ prevCall' = lastCall
    /\ UNCHANGED <<envVars, trigger, run, eureka_config, heartbeat_thread, hbPc,
                   httpVars, netVars, shutVars, startCalls>>
    /\ UNCHANGED <<deregVars, tlsVars, listenVars>>
    /\ UNCHANGED reqVars
    /\ UNCHANGED idVars

ApiJoinReturn ==
    /\ pc = "api_join"
    /\ pc' = "api"
    /\ lastCall' = "stop"
    /\ prevCall' = lastCall
    /\ UNCHANGED <<envVars, trigger, run, clientVars, httpVars, netVars, shutVars,
                   startCalls, stopCalls>>
    /\ UNCHANGED <<deregVars, tlsVars, listenVars>>
    /\ UNCHANGED reqVars
    /\ UNCHANGED idVars

InitClient ==
    /\ env \in {e \in Envs : e.appName}
    /\ tlsIn \in {t \in StartupTls : ~t.sslEnabled}
    /\ reqHeader = NoHeader
    /\ strictIn = NoStrictInput
    /\ healthIn = NoReading
    /\ pc = "api"
    /\ eureka_config = "obj"
    /\ instance_id = 1
    /\ uuids = 1
    /\ InitCommon

NextClient ==
    \/ ApiStartHeartbeat
    \/ ApiStopHeartbeat
    \/ ApiJoinReturn
    \/ Worker

\* The threads are scheduled by the operating system and every sleep and
\* every join(timeout) ends: each worker and the join return are weakly fair.
ClientSpec ==
    /\ InitClient
    /\ [][NextClient]_vars
    /\ \A t \in Threads : WF_vars(HbCheck(t) \/ HbSend(t) \/ HbWake(t))
    /\ WF_vars(ApiJoinReturn)

(***************************************************************************)
(* TlsSpec: create_ssl_context as a function of its inputs, over every     *)
(* combination of the two flags and the three files' states.               *)
(***************************************************************************)
BuildTlsCall ==
    /\ pc = "tls"
    /\ pc' = "tls_done"
    /\ tlsOut' = BuildTls(tlsIn)
    /\ UNCHANGED <<envVars, trigger, run, clientVars, httpVars, netVars, shutVars,
                   apiVars, deregVars, tlsIn, listenVars>>
    /\ UNCHANGED reqVars
    /\ UNCHANGED idVars

InitTls ==
    /\ env = [appName |-> TRUE, httpEnabled |-> FALSE]
    /\ tlsIn \in TlsInputs
    /\ reqHeader = NoHeader
    /\ strictIn = NoStrictInput
    /\ healthIn = NoReading
    /\ pc = "tls"
    /\ eureka_config = "None"
    /\ instance_id = 0
    /\ uuids = 0
    /\ InitCommon

NextTls == BuildTlsCall

TlsSpec == InitTls /\ [][NextTls]_vars

(***************************************************************************)
(* AuthSpec: one request with any Authorization header; the token          *)
(* extraction, the role validation of the extracted token, the protected   *)
(* endpoint and a handler under the decorator are each applied to it.      *)
(***************************************************************************)
ExtractCall ==
    /\ pc = "auth"
    /\ pc' = "extracted"
    /\ extractOut' = ExtractToken(reqHeader)
    /\ UNCHANGED <<envVars, trigger, run, clientVars, httpVars, netVars, shutVars, apiVars,
                   deregVars, tlsVars, listenVars, idVars, restVars, reqHeader, validateOut,
                   protectedStatus, decoratedStatus>>

ValidateCall ==
    /\ pc = "extracted"
    /\ extractOut.some
    /\ validateOut = "none"
    /\ validateOut' = ValidateJwtRoles(extractOut)
    /\ UNCHANGED <<envVars, mainVars, clientVars, httpVars, netVars, shutVars, apiVars,
                   deregVars, tlsVars, listenVars, idVars, restVars, reqHeader, extractOut,
                   protectedStatus, decoratedStatus>>

ProtectedGet ==
    /\ pc \in {"auth", "extracted"}
    /\ protectedStatus = 0
    /\ protectedStatus' = ProtectedGetStatus(reqHeader)
    /\ UNCHANGED <<envVars, mainVars, clientVars, httpVars, netVars, shutVars, apiVars,
                   deregVars, tlsVars, listenVars, idVars, restVars, reqHeader, extractOut, validateOut,
                   decoratedStatus>>

DecoratedGet ==
    /\ pc \in {"auth", "extracted"}
    /\ decoratedStatus = 0
    /\ decoratedStatus' = DecoratedStatus(reqHeader)
    /\ UNCHANGED <<envVars, mainVars, clientVars, httpVars, netVars, shutVars, apiVars,
                   deregVars, tlsVars, listenVars, idVars, restVars, reqHeader, extractOut, validateOut,
                   protectedStatus>>

InitAuth ==
    /\ env = [appName |-> TRUE, httpEnabled |-> FALSE]
    /\ tlsIn \in {t \in StartupTls : ~t.sslEnabled}
    /\ reqHeader \in Headers
    /\ strictIn = NoStrictInput
    /\ healthIn = NoReading
    /\ pc = "auth"
    /\ eureka_config = "None"
    /\ instance_id = 0
    /\ uuids = 0
    /\ InitCommon

NextAuth ==
    \/ ExtractCall
    \/ ValidateCall
    \/ ProtectedGet
    \/ DecoratedGet

AuthSpec == InitAuth /\ [][NextAuth]_vars

(***************************************************************************)
(* StrictSpec: validate_jwt_token applied to any token and key set.        *)
(***************************************************************************)
ValidateJwtTokenCall ==
    /\ pc = "strict"
    /\ pc' = "strict_done"
    /\ strictOut' = ValidateJwtToken(strictIn)
    /\ UNCHANGED <<procVars, trigger, run, authVars, extraVars, strictIn, healthVars, lifeVars, probeVars,
                   counterVars>>

InitStrict ==
    /\ env = [appName |-> TRUE, httpEnabled |-> FALSE]
    /\ tlsIn \in {t \in StartupTls : ~t.sslEnabled}
    /\ reqHeader = NoHeader
    /\ strictIn \in StrictInputs
    /\ healthIn = NoReading
    /\ pc = "strict"
    /\ eureka_config = "None"
    /\ instance_id = 0
    /\ uuids = 0
    /\ InitCommon

NextStrict == ValidateJwtTokenCall

StrictSpec == InitStrict /\ [][NextStrict]_vars

(***************************************************************************)
(* HealthSpec: is_healthy and GET /health under any reading.               *)
(***************************************************************************)
IsHealthyCall ==
    /\ pc = "health"
    /\ isHealthyOut = "none"
    /\ isHealthyOut' = IF IsHealthy(healthIn) THEN "true" ELSE "false"
    /\ UNCHANGED <<procVars, mainVars, authVars, extraVars, strictVars, healthIn, healthStatus, healthCode,
                   lifeVars, probeVars, counterVars>>

HealthGet ==
    /\ pc = "health"
    /\ healthCode = 0
    /\ healthStatus' = HealthStatusOf(healthIn)
    /\ healthCode' = HealthCodeOf(healthIn)
    /\ UNCHANGED <<procVars, mainVars, authVars, extraVars, strictVars, healthIn, isHealthyOut,
                   lifeVars, probeVars, counterVars>>

InitHealth ==
    /\ env = [appName |-> TRUE, httpEnabled |-> FALSE]
    /\ tlsIn \in {t \in StartupTls : ~t.sslEnabled}
    /\ reqHeader = NoHeader
    /\ strictIn = NoStrictInput
    /\ healthIn \in HealthReadings
    /\ pc = "health"
    /\ eureka_config = "None"
    /\ instance_id = 0
    /\ uuids = 0
    /\ InitCommon

NextHealth ==
    \/ IsHealthyCall
    \/ HealthGet

HealthSpec == InitHealth /\ [][NextHealth]_vars

(***************************************************************************)
(* ListenerSpec: the listener module used through its three functions.     *)
(* One caller calls start_http_server_if_enabled and stop_http_server in   *)
(* any order, one call at a time (stop blocks in join(timeout=5)); a       *)
(* second thread calls get_http_server_status again and again; a listener  *)
(* thread ends when http_app.run raises (the port is taken, for one).      *)
(***************************************************************************)
ApiStartHttp ==
    /\ pc = "lapi"
    /\ IF StartsHttpServer
       THEN /\ http_server_thread' = "thread"
            /\ httpPc' = "running"
            /\ httpPort' = HttpPortOf(Port)
            /\ orphans' = IF httpPc = "running" THEN Inc(orphans) ELSE orphans
       ELSE UNCHANGED <<http_server_thread, httpPc, httpPort, orphans>>
    /\ httpStartCalled' = TRUE
    /\ lastHttpCall' = "start"
    /\ UNCHANGED <<envVars, mainVars, clientVars, ssl_context, shutdown_event,
                   netVars, shutVars, apiVars, deregVars, tlsVars, idVars,
                   authVars, extraVars, strictVars, healthVars, counterVars, probeVars>>

ApiStopHttp ==
    /\ pc = "lapi"
    /\ IF http_server_thread = "thread" /\ IsAlive
       THEN /\ shutdown_event' = TRUE
            /\ pc' = "lapi_join"
            /\ UNCHANGED lastHttpCall
       ELSE /\ lastHttpCall' = "stop"
            /\ UNCHANGED <<pc, shutdown_event>>
    /\ UNCHANGED <<envVars, trigger, run, clientVars, ssl_context, http_server_thread, httpPc,
                   netVars, shutVars, apiVars, deregVars, tlsVars, listenVars, idVars,
                   authVars, extraVars, strictVars, healthVars, counterVars, orphans, probeVars>>

ApiHttpJoinReturn ==
    /\ pc = "lapi_join"
    /\ HttpJoinCanReturn
    /\ pc' = "lapi"
    /\ http_server_thread' = ThreadAfterStop
    /\ lastHttpCall' = "stop"
    /\ UNCHANGED <<envVars, trigger, run, clientVars, ssl_context, httpPc, shutdown_event,
                   netVars, shutVars, apiVars, deregVars, tlsVars, listenVars, idVars,
                   authVars, extraVars, strictVars, healthVars, counterVars, orphans, probeVars>>

\* The caller builds the context it hands to start_http_server_if_enabled.
ApiCreateSslContext ==
    /\ pc = "lapi_ssl"
    /\ pc' = "lapi"
    /\ tlsOut' = BuildTls(tlsIn)
    /\ ssl_context' = IF BuildTls(tlsIn).outcome = "ctx" THEN "ctx" ELSE "None"
    /\ UNCHANGED <<envVars, trigger, run, clientVars, http_server_thread, httpPc,
                   shutdown_event, netVars, shutVars, apiVars, deregVars, tlsIn, listenVars,
                   idVars, reqVars>>

\* A listener thread that is no longer referenced ends.
OrphanEnds ==
    /\ orphans > 0
    /\ orphans' = orphans - 1
    /\ UNCHANGED <<procVars, mainVars, authVars, extraVars, strictVars, healthVars, counterVars, lastHttpCall,
                   probeVars>>

\* `if _http_server_thread is None: return {...}`
StatusTestNone ==
    /\ stPc = "idle"
    /\ IF http_server_thread = "None"
       THEN /\ stOut' = NotStarted
            /\ UNCHANGED stPc
       ELSE /\ stPc' = "status"
            /\ stOut' = NoStatus
    /\ UNCHANGED <<procVars, mainVars, authVars, extraVars, strictVars, healthVars, counterVars, lifeVars>>

\* "status": "running" if _http_server_thread.is_alive() else "stopped"
StatusReadStatus ==
    /\ stPc = "status"
    /\ IF http_server_thread = "None"
       THEN /\ stOut' = StatusRaised
            /\ stPc' = "idle"
       ELSE /\ stOut' = [stOut EXCEPT !.status = IF IsAlive THEN "running" ELSE "stopped"]
            /\ stPc' = "name"
    /\ UNCHANGED <<procVars, mainVars, authVars, extraVars, strictVars, healthVars, counterVars, lifeVars>>

\* "thread_name": _http_server_thread.name
StatusReadName ==
    /\ stPc = "name"
    /\ IF http_server_thread = "None"
       THEN /\ stOut' = StatusRaised
            /\ stPc' = "idle"
       ELSE /\ stPc' = "is_alive"
            /\ UNCHANGED stOut
    /\ UNCHANGED <<procVars, mainVars, authVars, extraVars, strictVars, healthVars, counterVars, lifeVars>>

\* "is_alive": _http_server_thread.is_alive(), and the return.
StatusReadIsAlive ==
    /\ stPc = "is_alive"
    /\ stPc' = "idle"
    /\ IF http_server_thread = "None"
       THEN stOut' = StatusRaised
       ELSE stOut' = [stOut EXCEPT !.outcome = "returned", !.is_alive = IsAlive]
    /\ UNCHANGED <<procVars, mainVars, authVars, extraVars, strictVars, healthVars, counterVars, lifeVars>>

GetHttpServerStatus ==
    \/ StatusTestNone
    \/ StatusReadStatus
    \/ StatusReadName
    \/ StatusReadIsAlive

InitListener ==
    /\ env \in Envs
    /\ tlsIn \in {t \in StartupTls : BuildTls(t).outcome # "raised"}
    /\ reqHeader = NoHeader
    /\ strictIn = NoStrictInput
    /\ healthIn = NoReading
    /\ pc = "lapi_ssl"
    /\ eureka_config = "None"
    /\ instance_id = 0
    /\ uuids = 0
    /\ InitCommon

NextListener ==
    \/ ApiCreateSslContext
    \/ ApiStartHttp
    \/ ApiStopHttp
    \/ ApiHttpJoinReturn
    \/ HttpCrash
    \/ OrphanEnds
    \/ GetHttpServerStatus

ListenerSpec == InitListener /\ [][NextListener]_vars

\* The caller's join(timeout=5) ends and the probing thread is scheduled.  The
\* listener thread has no step of its own besides http_app.run raising, which
\* nothing obliges to happen.
ListenerFairSpec ==
    /\ InitListener
    /\ [][NextListener]_vars
    /\ WF_vars(ApiHttpJoinReturn)
    /\ WF_vars(GetHttpServerStatus)

(***************************************************************************)
(* CounterSpec: a fresh CounterService used by one caller, one operation   *)
(* at a time.                                                              *)
(***************************************************************************)
\* increment_count, also what GET /api/v1/count/increment returns as "count".
IncrementCount ==
    /\ pc = "counter"
    /\ value < MaxValue
    /\ value' = Incremented(value)
    /\ incs' = IF onlyIncs THEN incs + 1 ELSE incs
    /\ lastOp' = "increment"
    /\ lastRet' = value'
    /\ prevValue' = value
    /\ prevOp' = lastOp
    /\ UNCHANGED <<procVars, mainVars, authVars, extraVars, strictVars, healthVars, lifeVars, probeVars,
                   onlyIncs, lastArg>>

\* get_count
GetCount ==
    /\ pc = "counter"
    /\ lastOp' = "get"
    /\ lastRet' = value
    /\ prevValue' = value
    /\ prevOp' = lastOp
    /\ UNCHANGED <<procVars, mainVars, authVars, extraVars, strictVars, healthVars, lifeVars, probeVars,
                   value, incs, onlyIncs, lastArg>>

\* reset_count
ResetCount ==
    /\ pc = "counter"
    /\ value' = ResetValue
    /\ onlyIncs' = FALSE
    /\ lastOp' = "reset"
    /\ lastRet' = value'
    /\ prevValue' = value
    /\ prevOp' = lastOp
    /\ UNCHANGED <<procVars, mainVars, authVars, extraVars, strictVars, healthVars, lifeVars, probeVars,
                   incs, lastArg>>

\* set_count(v)
SetCount ==
    /\ pc = "counter"
    /\ \E v \in SetValues :
         /\ value' = ValueAfterSet(v)
         /\ lastArg' = v
    /\ lastRet' = value'
    /\ onlyIncs' = FALSE
    /\ lastOp' = "set"
    /\ prevValue' = value
    /\ prevOp' = lastOp
    /\ UNCHANGED <<procVars, mainVars, authVars, extraVars, strictVars, healthVars, lifeVars, probeVars,
                   incs>>

InitCounter ==
    /\ env = [appName |-> TRUE, httpEnabled |-> FALSE]
    /\ tlsIn \in {t \in StartupTls : ~t.sslEnabled}
    /\ reqHeader = NoHeader
    /\ strictIn = NoStrictInput
    /\ healthIn = NoReading
    /\ pc = "counter"
    /\ eureka_config = "None"
    /\ instance_id = 0
    /\ uuids = 0
    /\ InitCommon

NextCounter ==
    \/ IncrementCount
    \/ GetCount
    \/ ResetCount
    \/ SetCount

CounterSpec == InitCounter /\ [][NextCounter]_vars

(***************************************************************************)
(* StartRaceSpec: start_heartbeat called by several threads at once on the *)
(* same client. The method holds no lock, so its four statements           *)
(* interleave: the test of heartbeat_thread, the assignment of the running *)
(* flag, the assignment of a new Thread object, and the call of start() on *)
(* whatever heartbeat_thread refers to at that moment.                     *)
(***************************************************************************)
StartTest(c) ==
    /\ callerPc[c] = "idle"
    /\ callerPc' = [callerPc EXCEPT ![c] = IF HeartbeatThreadDead THEN "flag" ELSE "done"]
    /\ UNCHANGED <<envVars, mainVars, clientVars, httpVars, netVars, shutVars, apiVars,
                   deregVars, tlsVars, listenVars, idVars, authVars, strictVars, healthVars,
                   counterVars, lifeVars, probeVars, ipVars, incVars>>

StartSetFlag(c) ==
    /\ callerPc[c] = "flag"
    /\ heartbeat_running' = TRUE
    /\ callerPc' = [callerPc EXCEPT ![c] = "create"]
    /\ UNCHANGED <<envVars, mainVars, eureka_config, heartbeat_thread, hbPc, httpVars, netVars,
                   shutVars, apiVars, deregVars, tlsVars, listenVars, idVars, authVars,
                   strictVars, healthVars, counterVars, lifeVars, probeVars, ipVars, incVars>>

StartCreate(c) ==
    /\ callerPc[c] = "create"
    /\ FreshThread # 0
    /\ heartbeat_thread' = FreshThread
    /\ hbPc' = [hbPc EXCEPT ![FreshThread] = "created"]
    /\ callerPc' = [callerPc EXCEPT ![c] = "start"]
    /\ UNCHANGED <<envVars, mainVars, eureka_config, heartbeat_running, httpVars, netVars,
                   shutVars, apiVars, deregVars, tlsVars, listenVars, idVars, authVars,
                   strictVars, healthVars, counterVars, lifeVars, probeVars, ipVars, incVars>>

\* Thread.start() raises RuntimeError on a thread that was started before.
StartThread(c) ==
    /\ callerPc[c] = "start"
    /\ IF hbPc[heartbeat_thread] = "created"
       THEN /\ hbPc' = [hbPc EXCEPT ![heartbeat_thread] = "check"]
            /\ callerPc' = [callerPc EXCEPT ![c] = "done"]
       ELSE /\ callerPc' = [callerPc EXCEPT ![c] = "raised"]
            /\ UNCHANGED hbPc
    /\ UNCHANGED <<envVars, mainVars, eureka_config, heartbeat_thread, heartbeat_running,
                   httpVars, netVars, shutVars, apiVars, deregVars, tlsVars, listenVars, idVars,
                   authVars, strictVars, healthVars, counterVars, lifeVars, probeVars, ipVars,
                   incVars>>

InitStartRace ==
    /\ env \in {e \in Envs : e.appName}
    /\ tlsIn \in {t \in StartupTls : ~t.sslEnabled}
    /\ reqHeader = NoHeader
    /\ strictIn = NoStrictInput
    /\ healthIn = NoReading
    /\ pc = "race"
    /\ eureka_config = "obj"
    /\ instance_id = 1
    /\ uuids = 1
    /\ InitCommon

NextStartRace ==
    \/ \E c \in Callers : StartTest(c)
    \/ \E c \in Callers : StartSetFlag(c)
    \/ \E c \in Callers : StartCreate(c)
    \/ \E c \in Callers : StartThread(c)
    \/ Worker

StartRaceSpec == InitStartRace /\ [][NextStartRace]_vars

(***************************************************************************)
(* IncRaceSpec: GET /increment handled by several request threads of the   *)
(* threaded server on the one module-level CounterService. increment_count *)
(* holds no lock: `value += 1` reads the attribute, adds and writes it     *)
(* back, last_updated is assigned, and the return value is a further read  *)
(* of the attribute.                                                       *)
(***************************************************************************)
IncLoad(r) ==
    /\ pc = "inc_race"
    /\ rqPc[r] = "idle"
    /\ rqTmp' = [rqTmp EXCEPT ![r] = value]
    /\ rqPc' = [rqPc EXCEPT ![r] = "store"]
    /\ UNCHANGED <<procVars, mainVars, authVars, strictVars, healthVars, counterVars, lifeVars,
                   probeVars, ipVars, raceVars, rqRet>>

IncStore(r) ==
    /\ pc = "inc_race"
    /\ rqPc[r] = "store"
    /\ value' = Incremented(rqTmp[r])
    /\ rqPc' = [rqPc EXCEPT ![r] = "return"]
    /\ UNCHANGED <<procVars, mainVars, authVars, strictVars, healthVars, lifeVars, probeVars,
                   ipVars, raceVars, rqTmp, rqRet>>
    /\ UNCHANGED <<incs, onlyIncs, lastOp, lastRet, prevValue, prevOp, lastArg>>

IncReturn(r) ==
    /\ pc = "inc_race"
    /\ rqPc[r] = "return"
    /\ rqRet' = [rqRet EXCEPT ![r] = value]
    /\ rqPc' = [rqPc EXCEPT ![r] = "done"]
    /\ UNCHANGED <<procVars, mainVars, authVars, strictVars, healthVars, counterVars, lifeVars,
                   probeVars, ipVars, raceVars, rqTmp>>

InitIncRace ==
    /\ env = [appName |-> TRUE, httpEnabled |-> FALSE]
    /\ tlsIn \in {t \in StartupTls : ~t.sslEnabled}
    /\ reqHeader = NoHeader
    /\ strictIn = NoStrictInput
    /\ healthIn = NoReading
    /\ pc = "inc_race"
    /\ eureka_config = "None"
    /\ instance_id = 0
    /\ uuids = 0
    /\ InitCommon

NextIncRace ==
    \/ \E r \in Requests : IncLoad(r)
    \/ \E r \in Requests : IncStore(r)
    \/ \E r \in Requests : IncReturn(r)

IncRaceSpec == InitIncRace /\ [][NextIncRace]_vars

(***************************************************************************)
(* IpSpec: EurekaConfig._get_network_ip under any answer of the sockets.   *)
(* The probe is socket(), connect(("8.8.8.8", 80)), getsockname() and      *)
(* close(); the alternative is gethostname() and gethostbyname(). Each of  *)
(* these calls can raise; the print calls are taken to succeed.            *)
(***************************************************************************)
IpAddrs == {"10.0.0.5", "127.0.1.1", "127.0.0.1"}
ProbeOutcomes == {"ok", "socket", "connect", "getsockname", "close"}
HostOutcomes == {"ok", "gethostname", "gethostbyname"}
IpInputs ==
    [probe : ProbeOutcomes, probeAddr : IpAddrs, host : HostOutcomes, hostAddr : IpAddrs]
Loopback == "127.0.0.1"

GetNetworkIpHostnameFirst(i) ==
    IF i.host = "ok"
    THEN [ip |-> i.hostAddr, tried |-> <<"hostname">>]
    ELSE IF i.probe = "ok"
         THEN [ip |-> i.probeAddr, tried |-> <<"hostname", "probe">>]
         ELSE [ip |-> Loopback, tried |-> <<"hostname", "probe">>]

\* The outer try is the probe, its except clause holds the inner try, and the
\* inner except clause returns the loopback address.
GetNetworkIp(i) ==
    IF i.probe = "ok"
    THEN [ip |-> i.probeAddr, tried |-> <<"probe">>]
    ELSE IF i.host = "ok"
         THEN [ip |-> i.hostAddr, tried |-> <<"probe", "hostname">>]
         ELSE [ip |-> Loopback, tried |-> <<"probe", "hostname">>]

GetNetworkIpCall ==
    /\ pc = "ip"
    /\ \E i \in IpInputs :
         /\ ipIn' = i
         /\ ipOut' = GetNetworkIp(i)
    /\ pc' = "ip_done"
    /\ UNCHANGED <<procVars, trigger, run, authVars, strictVars, healthVars, counterVars,
                   lifeVars, probeVars, raceVars, incVars>>

InitIp ==
    /\ env = [appName |-> TRUE, httpEnabled |-> FALSE]
    /\ tlsIn \in {t \in StartupTls : ~t.sslEnabled}
    /\ reqHeader = NoHeader
    /\ strictIn = NoStrictInput
    /\ healthIn = NoReading
    /\ pc = "ip"
    /\ eureka_config = "None"
    /\ instance_id = 0
    /\ uuids = 0
    /\ InitCommon

NextIp == GetNetworkIpCall

IpSpec == InitIp /\ [][NextIp]_vars

(***************************************************************************)
(*                              Properties                                 *)
(***************************************************************************)
CanonicalShutdownOrder ==
    <<"listener_stopped", "hb_stop_begun", "hb_stopped", "dereg_issued">>

\* C1: in a cleanup_resources run begun on a fully running instance, the
\* listener stop completes before the heartbeat stop begins, and the heartbeat
\* stop completes before the deregistration request is issued: the steps taken
\* so far are always a prefix of that order.
C1_ShutdownOrder ==
    fullAtCleanup =>
        /\ Len(events) <= Len(CanonicalShutdownOrder)
        /\ events = SubSeq(CanonicalShutdownOrder, 1, Len(events))

C1_Witness ==
    fullAtCleanup /\ events = CanonicalShutdownOrder

\* C2: a heartbeat PUT is sent only after a registration attempt that
\* returned true.
C2_NoHeartbeatBeforeRegistration ==
    (puts > 0 \/ AliveLoops # {}) => (regResult = "true" /\ posts > 0)

C2_Witness ==
    puts > 0 /\ regResult = "true"

\* C3: the startup sends at most one POST, and after a failed attempt the
\* heartbeat loop is never started and no heartbeat is ever sent.
C3_SingleAttemptNoHeartbeat ==
    /\ posts <= 1
    /\ regResult \in {"false", "raised"} =>
         /\ heartbeat_thread = 0
         /\ AliveLoops = {}
         /\ ~heartbeat_running
         /\ puts = 0

C3_Witness ==
    regResult = "false" /\ posts = 1 /\ pc = "exited"

C5_UnsetAppNameReturnsFalse ==
    (~env.appName /\ regResult # "none") => (regResult = "false" /\ posts = 0)

\* C6: with APP_NAME unset no registry-client operation raises, the
\* construction of the client included, and none sends a request.
C6_UnsetAppNameNeverRaises ==
    ~env.appName => (~ctorRaised /\ posts = 0 /\ puts = 0 /\ deletes = 0)

\* C7: start_heartbeat while a loop is running changes nothing: there is never
\* more than one live loop, and after any number of start_heartbeat calls (and
\* no stop) exactly one, the one the client refers to.
C7_StartHeartbeatIdempotent ==
    /\ Cardinality(AliveLoops) <= 1
    /\ (startCalls >= 1 /\ stopCalls = 0) =>
         (AliveLoops = {heartbeat_thread} /\ heartbeat_running)

C7_Witness ==
    startCalls >= 2 /\ stopCalls = 0 /\ AliveLoops = {heartbeat_thread}

\* C8: after stop_heartbeat has returned and start_heartbeat is the next call,
\* the running flag is true and the client refers to a live loop (as long as
\* no further call has begun).
C8_StopThenStartRestarts ==
    (pc = "api" /\ lastCall = "start" /\ prevCall = "stop") =>
        (heartbeat_running /\ heartbeat_thread # 0 /\ Alive(heartbeat_thread))

\* C9: a failed heartbeat never ends the loop: a worker ends only at its check
\* of a cleared running flag, and after a failed heartbeat another one is sent
\* unless the flag is cleared.
C9_FailureNeverStopsLoop ==
    /\ [][\A t \in Threads :
            (Alive(t) /\ ~Alive(t)') => (hbPc[t] = "check" /\ ~heartbeat_running)]_vars
    /\ \A b \in {0, 1} :
         (lastBeat = "failed" /\ beatParity = b /\ heartbeat_running)
            ~> (beatParity # b \/ ~heartbeat_running)

C9_Witness ==
    prevBeat = "failed" /\ lastBeat # "none" /\ stopCalls = 0

\* C10: stop_heartbeat clears the flag and returns after the join, the loop
\* ended or not, without touching the worker; with the flag cleared a worker
\* starts no further iteration, and every loop ends.
C10_StopHeartbeatCooperative ==
    /\ [][(pc = "api_join" /\ pc' = "api") => (hbPc' = hbPc /\ ~heartbeat_running')]_vars
    /\ [](lastCall = "stop" => ~heartbeat_running)
    /\ [][\A t \in Threads :
            (~heartbeat_running /\ hbPc[t] = "check") => hbPc'[t] \in {"check", "dead"}]_vars
    /\ (pc = "api_join") ~> (pc = "api")
    /\ (~heartbeat_running) ~> (AliveLoops = {})

C10_Witness ==
    pc = "api" /\ lastCall = "stop" /\ heartbeat_thread # 0 /\ Alive(heartbeat_thread)

\* C11: deregistration sends one DELETE, returns true exactly on status 200 and
\* false (never an exception) on anything else, and whatever it returned the
\* cleanup run that issued it is over.
C11_DeregisterBestEffort ==
    /\ deletes > 0 =>
         /\ deregResult \in {"true", "false"}
         /\ deregResult = "true" <=> (deregResp.kind = "status" /\ deregResp.code = 200)
    /\ (events # <<>> /\ events[Len(events)] = "dereg_issued") => pc \in {"cleaned", "exited"}

C11_Witness ==
    deregResult = "false" /\ deregResp.kind = "status" /\ pc = "exited"

\* C12: once start_http_server_if_enabled has been called, the plaintext
\* listener exists exactly when HTTP_ENABLED is true and no TLS configuration
\* was built; it listens on the primary port + 1000; with a TLS configuration
\* there is never a listener.
C12_ListenerIffEnabledAndNoTls ==
    /\ httpStartCalled =>
         ((httpPc # "unborn") <=> (env.httpEnabled /\ tlsOut.outcome = "none"))
    /\ httpPc # "unborn" => (httpStartCalled /\ httpPort = 6001)
    /\ tlsOut.outcome = "ctx" => httpPc = "unborn"

C12_Witness ==
    httpPc = "running" /\ httpPort = 6001 /\ tlsIn.sslEnabled

\* C13 as stated: a running plaintext listener implies SSL_ENABLED is false.
C13_ListenerImpliesSslDisabled ==
    httpPc = "running" => ~tlsIn.sslEnabled

\* C13 amended: a running plaintext listener implies that no TLS
\* configuration was built, that is SSL_ENABLED is false or the certificate or
\* the key file is absent.
C13_ListenerImpliesNoTlsContext ==
    httpPc = "running" =>
        /\ tlsOut.outcome = "none"
        /\ ~tlsIn.sslEnabled \/ tlsIn.cert = "absent" \/ tlsIn.key = "absent"

C13_Witness ==
    httpPc = "running" /\ tlsIn.sslEnabled /\ tlsIn.cert = "absent"

\* C14: create_ssl_context returns None exactly when SSL is disabled or the
\* certificate or key file is absent, and a context in every other case.
C14_NoneIffDisabledOrAbsent ==
    pc = "tls_done" =>
        /\ tlsOut.outcome = "none" <=>
             (~tlsIn.sslEnabled \/ tlsIn.cert = "absent" \/ tlsIn.key = "absent")
        /\ tlsOut.outcome \in {"none", "ctx"}

\* C15: a built context requires client certificates exactly when mutual TLS
\* is enabled and the CA bundle is there and readable, verifies none otherwise,
\* and never checks hostnames.
C15_VerifyModeOfBuiltContext ==
    tlsOut.outcome = "ctx" =>
        /\ tlsOut.verify_mode = "CERT_REQUIRED" <=> (tlsIn.mutualTls /\ tlsIn.ca = "valid")
        /\ tlsOut.verify_mode \in {"CERT_REQUIRED", "CERT_NONE"}
        /\ ~tlsOut.check_hostname

C15_Witness ==
    tlsOut.outcome = "ctx" /\ tlsIn.mutualTls /\ tlsOut.verify_mode = "CERT_NONE"

\* C16: no combination of inputs makes create_ssl_context raise, and mutual
\* TLS asked for with a missing or unreadable CA bundle gives a context that
\* verifies none.
C16_BuilderNeverRaises ==
    pc = "tls_done" =>
        /\ tlsOut.outcome # "raised"
        /\ (tlsIn.sslEnabled /\ tlsIn.cert = "valid" /\ tlsIn.key = "valid"
              /\ tlsIn.mutualTls /\ tlsIn.ca # "valid") =>
             (tlsOut.outcome = "ctx" /\ tlsOut.verify_mode = "CERT_NONE")

\* Both role claims are arrays that hold the required role.
HoldsBothRoles(t) == t.kind = "jwt" /\ t.realm = "has" /\ t.client = "has"

\* C17: validate_jwt_roles returns true exactly when realm_access.roles holds
\* the required realm role and resource_access[client id].roles holds the
\* required client role.
C17_ValidateIffBothRoles ==
    validateOut # "none" =>
        (validateOut = "true" <=> (extractOut.chars = <<>> /\ HoldsBothRoles(extractOut.tok)))

\* C18: validate_jwt_roles never lets an exception out: it returns true or
\* false, and false for a token that does not decode and for claims of a shape
\* its checks cannot search.
C18_ValidateNeverRaises ==
    validateOut # "none" =>
        /\ validateOut \in {"true", "false"}
        /\ (extractOut.chars # <<>> \/ extractOut.tok.kind # "jwt") => validateOut = "false"
        /\ extractOut.tok.realm \in {"nondict", "null"} => validateOut = "false"
        /\ extractOut.tok.client \in {"nondict", "entry_nondict", "null"} => validateOut = "false"

C18_Witness ==
    validateOut = "false" /\ extractOut.tok.kind = "jwt" /\ extractOut.tok.realm = "nondict"
        /\ extractOut.tok.client = "has"

\* C19: the extraction gives the rest of the header after "Bearer " when the
\* header is there and begins with exactly these seven characters, and nothing
\* otherwise.
C19_ExtractTokenExactPrefix ==
    pc = "extracted" =>
        IF /\ reqHeader.present
           /\ Len(reqHeader.chars) >= 7
           /\ \A i \in 1..7 : reqHeader.chars[i] = BearerPrefix[i]
        THEN /\ extractOut.some
             /\ BearerPrefix \o extractOut.chars = reqHeader.chars
             /\ extractOut.tok = reqHeader.tok
        ELSE extractOut = NoToken

C19_Witness ==
    pc = "extracted" /\ extractOut.some /\ extractOut.tok.kind = "jwt"

\* C20: on the protected endpoint a request without a bearer token gets 401,
\* one whose token lacks the roles gets 403, and the handler runs (200) only
\* for a token with the roles.
C20_Protected401And403 ==
    (protectedStatus # 0 /\ pc = "extracted") =>
        /\ ~extractOut.some => protectedStatus = 401
        /\ (extractOut.some /\ Decodes(extractOut) /\ ~HoldsBothRoles(extractOut.tok)
              /\ extractOut.tok.realm # "substr" /\ extractOut.tok.client # "substr")
             => protectedStatus = 403
        /\ protectedStatus = 200 => extractOut.some

\* C21: the role check does not look at the signature: two tokens with the
\* same claims and different signatures (or none) get the same result.
C21_ValidateIgnoresSignature ==
    validateOut # "none" =>
        \A s \in Sigs :
            ValidateJwtRoles([extractOut EXCEPT !.tok.sig = s]) = validateOut

C21_Witness ==
    validateOut = "true" /\ extractOut.tok.sig = "other_key"

\* C22: on the protected endpoint a malformed token, an unsigned token and a
\* token without a required role are all denied (401) and none of them is a
\* fault; an unsigned token is never allowed.
C22_UnsignedNeverAllowed ==
    (protectedStatus # 0 /\ reqHeader.present) =>
        /\ protectedStatus \in {200, 401}
        /\ reqHeader.tok.kind = "garbage" => protectedStatus = 401
        /\ (reqHeader.tok.kind = "jwt" /\ ~HoldsBothRoles(reqHeader.tok)
              /\ reqHeader.tok.realm # "substr" /\ reqHeader.tok.client # "substr")
             => protectedStatus = 401
        /\ (reqHeader.tok.kind = "jwt" /\ reqHeader.tok.sig = "unsigned")
             => protectedStatus = 401

C24_DownIffMemoryAbove90 ==
    (healthCode # 0 /\ ~healthIn.psutilFails) =>
        /\ healthStatus = "DOWN" <=> healthIn.mem > 90
        /\ healthCode = (IF healthIn.mem > 90 THEN 503 ELSE 200)

\* C25: the instance id is drawn once and stays: the registration body, every
\* heartbeat URL and the deregistration URL of a process carry one and the same
\* id, whatever the order of register, heartbeat, stop and deregister.
C25_OneInstanceId ==
    /\ uuids <= 1
    /\ Cardinality(idsSent) <= 1
    /\ idsSent \subseteq {instance_id}
    /\ eureka_config = "obj" => instance_id = 1

C25_Witness ==
    idsSent = {1} /\ posts > 0 /\ puts > 0 /\ deletes > 0 /\ run = 2

\* The steps of the cleanup run at hand.
Done(step) == \E i \in 1..Len(events) : events[i] = step

\* C26: stop_http_server always returns, the listener thread ended or not, so
\* every cleanup run that has begun reaches its end with the heartbeat stop and
\* the deregistration executed.
C26_ListenerStopNeverBlocks ==
    /\ (pc = "http_join") ~> (pc # "http_join")
    /\ (pc \in {"stop_http", "http_join"}) ~>
          (pc = "cleaned" /\ Done("listener_stopped") /\ Done("hb_stopped")
             /\ (env.appName => Done("dereg_issued")))

C26_Witness ==
    pc = "cleaned" /\ Done("listener_stopped") /\ httpPc = "running" /\ Done("dereg_issued")

\* C27: get_http_server_status changes nothing, never raises when a stop or
\* the end of the listener thread falls between its steps, and returns a
\* record whose status says "running" exactly when is_alive is true.
C27_StatusSafeUnderConcurrency ==
    /\ stOut.outcome # "raised"
    /\ stOut.outcome = "returned" => (stOut.status = "running" <=> stOut.is_alive)

\* The listener's lifecycle state as the module shows it: stopping while
\* stop_http_server waits in its join, running while a listener thread is
\* alive, stopped otherwise.
LifecycleState ==
    IF IsAlive \/ orphans > 0
    THEN IF pc = "lapi_join" THEN "stopping" ELSE "running"
    ELSE "stopped"

\* C28: the listener goes stopped -> starting -> running -> stopping -> stopped
\* and nowhere else; once stop_http_server has returned the listener is
\* stopped.
C28_StoppedAfterStop ==
    (pc = "lapi" /\ lastHttpCall = "stop") => LifecycleState = "stopped"

\* C29: at startup the TLS configuration is built, then the listeners are
\* started, then the instance is registered: no registration request goes out
\* before the context is built and the listeners are started.
C29_RegistrationAfterListeners ==
    posts > 0 => (ssl_context # "unset" /\ httpStartCalled)

\* C30: the counter starts at 0; an increment raises it by exactly 1 and
\* returns the new value; after n increments of a fresh service, one after the
\* other, get_count returns n.
C30_IncrementAddsOne ==
    /\ lastOp = "none" => value = 0
    /\ lastOp = "increment" => (value = prevValue + 1 /\ lastRet = prevValue + 1)
    /\ onlyIncs => value = incs
    /\ (onlyIncs /\ lastOp = "get") => lastRet = incs

C30_Witness ==
    onlyIncs /\ incs = 3 /\ lastOp = "get" /\ lastRet = 3

\* C31: reset_count sets the counter to 0 and returns 0 whatever the value
\* was, and a get_count right after it returns 0.
C31_ResetGivesZero ==
    /\ lastOp = "reset" => (value = 0 /\ lastRet = 0)
    /\ (lastOp = "get" /\ prevOp = "reset") => lastRet = 0

C31_Witness ==
    lastOp = "get" /\ prevOp = "reset" /\ lastRet = 0

\* C32: set_count(v) returns v and get_count then returns v, for any v and
\* any value before; a later set_count overrides an earlier one.
C32_SetGivesArgument ==
    /\ lastOp = "set" => (value = lastArg /\ lastRet = lastArg)
    /\ (lastOp = "get" /\ prevOp = "set") => lastRet = lastArg

C32_Witness ==
    lastOp = "set" /\ prevOp = "set" /\ prevValue = MaxValue /\ lastArg = 1 /\ value = 1

\* C33: once the deregistration request of the shutdown has gone out, no
\* heartbeat PUT goes out any more, however the worker and the shutdown
\* interleave.
C33_NoHeartbeatAfterDeregistration ==
    [][deletes > 0 => beatParity' = beatParity]_vars

\* C34: the listener thread polls the stop signal: once stop_http_server has
\* set it, the listener eventually halts.
C34_ListenerHaltsAfterSignal ==
    shutdown_event ~> ~IsAlive

\* C35: _get_network_ip asks its sources in a fixed order and always returns
\* an address: the probe's address when the probe succeeds, without asking
\* the hostname; the hostname's address only when the probe failed; the
\* loopback address 127.0.0.1 only when both failed.
C35_IpResolutionOrder ==
    pc = "ip_done" =>
        /\ ipOut.ip \in IpAddrs
        /\ ipIn.probe = "ok" => ipOut = [ip |-> ipIn.probeAddr, tried |-> <<"probe">>]
        /\ (ipIn.probe # "ok" /\ ipIn.host = "ok") =>
               ipOut = [ip |-> ipIn.hostAddr, tried |-> <<"probe", "hostname">>]
        /\ (ipIn.probe # "ok" /\ ipIn.host # "ok") =>
               ipOut = [ip |-> "127.0.0.1", tried |-> <<"probe", "hostname">>]

C35_Witness ==
    /\ pc = "ip_done"
    /\ ipIn.probe = "connect"
    /\ ipIn.host = "ok"
    /\ ipIn.probeAddr # ipIn.hostAddr
    /\ ipOut.ip = ipIn.hostAddr

\* C36: at most one heartbeat loop is alive at any time, also when
\* start_heartbeat is called by several threads at once.
C36_OneLoopUnderConcurrentStart == Cardinality(AliveLoops) <= 1

\* C37: the deregistration request (DELETE) is issued at most once per
\* process shutdown, whichever path triggers the shutdown.
C37_DeregisterAtMostOnce == deletes <= 1

\* C38: no increment is lost under concurrent requests: once all the
\* concurrent GET /increment requests are answered, the count is the initial
\* count (0) plus their number, and no two of them returned the same value.
C38_NoLostIncrement ==
    (\A r \in Requests : rqPc[r] = "done") =>
        /\ value = Cardinality(Requests)
        /\ \A r1, r2 \in Requests : r1 # r2 => rqRet[r1] # rqRet[r2]

StopReturned == pc = "lapi" /\ lastHttpCall = "stop"

\* C39 as claimed: after stop_http_server has returned the module holds no
\* reference to a listener thread, and a get_http_server_status call made then
\* finds none and reports not_started.
C39_StopDropsReference ==
    /\ [](StopReturned => http_server_thread = "None")
    /\ [][(StopReturned /\ stPc = "idle") =>
            (stPc' = "idle" /\ (stOut' # stOut => stOut' = NotStarted))]_vars

\* C39: a stop_http_server call that found the listener thread alive drops
\* the reference when its join returns, whether or not the thread has ended by
\* then; after any stop_http_server call has returned the module refers to no
\* live listener thread (to none at all, or to one that had died by itself
\* before the call, which the call leaves in place); a get_http_server_status
\* call that finds no reference reports not_started with is_alive false; and a
\* further stop_http_server call neither sets the event nor joins.
C39_StopDropsLiveReference ==
    /\ [](StopReturned => (http_server_thread = "None" \/ ~IsAlive))
    /\ [][(pc = "lapi_join" /\ pc' = "lapi") => http_server_thread' = "None"]_vars
    /\ [][(StopReturned /\ http_server_thread = "None" /\ stPc = "idle") =>
            (stPc' = "idle" /\ (stOut' # stOut => stOut' = NotStarted))]_vars
    /\ [][StopReturned => (pc' # "lapi_join" /\ shutdown_event' = shutdown_event)]_vars

C39_Witness ==
    /\ StopReturned
    /\ shutdown_event
    /\ http_server_thread = "None"
    /\ httpPc = "running"
    /\ stOut = NotStarted

\* C40: every cleanup_resources run makes the deregistration call on the
\* client, whatever became of the registration, and with an application name
\* that call sends the DELETE; its heartbeat step neither waits in a join nor
\* raises when no heartbeat thread was ever created; and its listener step
\* neither sets the event nor waits when no listener thread was ever started.
C40_CleanupSafeWhenNeverStarted ==
    /\ [][(pc = "dereg" /\ pc' # "dereg") =>
            /\ ctorRaised' = ctorRaised
            /\ env.appName => deletes' = deletes + 1]_vars
    /\ [][(pc = "stop_hb" /\ heartbeat_thread = 0) =>
            (pc' # "hb_join" /\ ctorRaised' = ctorRaised)]_vars
    /\ [][(pc = "stop_http" /\ http_server_thread = "None") =>
            (pc' # "http_join" /\ shutdown_event' = shutdown_event)]_vars

====
